---- MODULE Spec2Model ----
(***************************************************************************)
(* Model of the health-assistant workflow (src/unnamed/part_000, the same  *)
(* program as the second version in src/src/index.ts): a two-node graph    *)
(* supervisor <-> health_agent over one "messages" channel, run through    *)
(* app.stream(initialInput, {streamMode: 'values'}) and consumed by        *)
(* runWorkflow.                                                            *)
(*                                                                         *)
(* The graph executor is the LangGraph library the program calls.  What    *)
(* the model takes from it: the input is written to the channel and the    *)
(* state is yielded; then, step by step, the scheduled node runs, its      *)
(* update is merged by the channel reducer, the state is yielded when the  *)
(* update wrote the channel, and the node's outgoing edge schedules the    *)
(* next node; a run that still has a node scheduled when the step limit    *)
(* is used up ends in an error.  The agent runnable built by               *)
(* createReactAgent returns its final message list: the messages it was    *)
(* given followed by the ones it generated.                                *)
(***************************************************************************)
EXTENDS Naturals, Sequences, FiniteSets

\* ---------------------------------------------------------------- bounds
MaxInitLen == 2
MaxReplyLen == 1
RecursionLimit == 4

\* -------------------------------------------------------------- messages
END == "__end__"

MsgTypes == {"human", "ai"}
Contents == {"hi", "hello"}
Messages == [type : MsgTypes, content : Contents]

\* what indexing past the ends of an array gives
Undefined == [type |-> "undefined", content |-> ""]

HumanMessage(c) == [type |-> "human", content |-> c]
AIMessage(c) == [type |-> "ai", content |-> c]

SeqsUpTo(S, n) == UNION {[1..k -> S] : k \in 0..n}

InitialInputs == {[messages |-> s] : s \in SeqsUpTo(Messages, MaxInitLen)}
Replies == SeqsUpTo(Messages, MaxReplyLen)

\* ------------------------------------------------------------ the channel
ChannelDefault == << >>

reducer_dedup(x, y) ==
    x \o SelectSeq(y, LAMBDA m : \A i \in 1..Len(x) : x[i] # m)
reducer_window(x, y) ==
    LET z == x \o y
    IN IF Len(z) > 2 THEN SubSeq(z, Len(z) - 1, Len(z)) ELSE z
reducer(x, y) == x \o y

\* ------------------------------------------------------------- the nodes
NoUpdate == [k \in {} |-> << >>]

supervisorNode_echo(state) == [k \in {"messages"} |-> state.messages]
supervisorNode(state) == NoUpdate

\* healthAgentRunnable.invoke(state): the agent's final message list
AgentInvoke(state, generated) == [messages |-> state.messages \o generated]

callHealthAgentNode(state, response) ==
    [k \in {"messages"} |-> response.messages]

\* ------------------------------------------------------------ the router
LastMessage(msgs) == IF Len(msgs) = 0 THEN Undefined ELSE msgs[Len(msgs)]

IsHumanMessage(m) == m.type = "human"

routeLogic_first(state) ==
    IF Len(state.messages) > 0 /\ IsHumanMessage(state.messages[1])
    THEN "health_agent"
    ELSE END
routeLogic_always(state) == "health_agent"
routeLogic(state) ==
    IF IsHumanMessage(LastMessage(state.messages))
    THEN "health_agent"
    ELSE END

\* ------------------------------------------------------------- the edges
Nodes == {"health_agent", "supervisor"}

\* addEdge(START, 'supervisor')
EntryNodes_health == {"health_agent"}
EntryNodes == {"supervisor"}

\* addConditionalEdges('supervisor', routeLogic, {...})
OutcomeMap_no_end == [l \in {"health_agent"} |-> l]
OutcomeMap == [l \in {"health_agent", END} |-> l]

\* addEdge('health_agent', 'supervisor')
PlainEdges_self == [n \in {"health_agent"} |-> "health_agent"]
PlainEdges_ghost == [n \in {"health_agent"} |-> "ghost"]
PlainEdges == [n \in {"health_agent"} |-> "supervisor"]

\* the label a finished node's outgoing edge resolves to
EdgeLabel(node, state) ==
    IF node = "supervisor" THEN routeLogic(state) ELSE PlainEdges[node]

Successors_fanout(node, label) ==
    IF node = "supervisor" THEN {OutcomeMap[label]} \ {END} ELSE Nodes
Successors(node, label) ==
    IF node = "supervisor" THEN {OutcomeMap[label]} \ {END} ELSE {label}

\* ----------------------------------------------------- the environment
RequiredEnv_two == {"ENDPOINT_ID", "ENDPOINT_API_KEY"}
RequiredEnv == {"ENDPOINT_ID", "ENDPOINT_API_KEY", "ARK_BASE_URL"}

\* the variables of local.env / process.env that hold a non-empty value
Environments == SUBSET {"ENDPOINT_ID", "ENDPOINT_API_KEY", "ARK_BASE_URL"}

\* --------------------------------------------------- the graph, compiled
NoGraph == [nodes |-> {}, entry |-> {}, plain |-> {}, cond |-> {}]

\* what buildWorkflow hands to compile: the registered nodes, the targets of
\* the START edge, the plain edges and, per conditional edge, its targets
BuiltGraph ==
    [nodes |-> Nodes,
     entry |-> EntryNodes,
     plain |-> {<<n, PlainEdges[n]>> : n \in DOMAIN PlainEdges},
     cond  |-> {<<"supervisor", {OutcomeMap[l] : l \in DOMAIN OutcomeMap}>>}]

EdgeSources(g) == {e[1] : e \in g.plain} \cup {c[1] : c \in g.cond}
EdgeTargets(g) ==
    g.entry \cup {e[2] : e \in g.plain} \cup UNION {c[2] : c \in g.cond}

\* how many edge sets a graph gives the source node n: each plain edge and
\* each conditional edge added for n is one
EdgeSetCount(g, n) ==
    Cardinality({e \in g.plain : e[1] = n}) +
    Cardinality({c \in g.cond : c[1] = n})

\* workflow.compile(), by its contract (spec 4.4): a ValidationError if an
\* edge references an unregistered node name, if two edge sets have the
\* same source node, or if the entry node is not registered
compile(g) ==
    IF \/ ~(EdgeSources(g) \subseteq g.nodes)
       \/ ~(EdgeTargets(g) \subseteq g.nodes \cup {END})
       \/ \E n \in EdgeSources(g) : EdgeSetCount(g, n) > 1
       \/ ~(g.entry \subseteq g.nodes)
    THEN "ValidationError"
    ELSE "compiled"

\* the arguments compile's contract ranges over, at the size of the
\* workflow's graph: one entry, one plain edge and one conditional edge over
\* the registered names and one name that no addNode registers
NodeNames == Nodes \cup {"ghost"}

Graphs ==
    {[nodes |-> ns,
      entry |-> {en},
      plain |-> {<<ps, pt>>},
      cond  |-> {<<cs, {t1, t2}>>}] :
        ns \in SUBSET Nodes, en \in NodeNames,
        ps \in NodeNames, pt \in NodeNames \cup {END},
        cs \in NodeNames,
        t1 \in NodeNames \cup {END}, t2 \in NodeNames \cup {END}}

\* ------------------------------------------- merging and the value stream
ApplyUpdate(state, update) ==
    IF "messages" \in DOMAIN update
    THEN [messages |-> reducer(state.messages, update["messages"])]
    ELSE state

EmitValues_every_step(snaps, update, state) == Append(snaps, state)
EmitValues(snaps, update, state) ==
    IF "messages" \in DOMAIN update THEN Append(snaps, state) ELSE snaps

\* what main does with an error thrown out of runWorkflow
mainCatch_swallow == [status |-> "running", exitCode |-> 1, retry |-> TRUE]
mainCatch == [status |-> "failed", exitCode |-> 1, retry |-> FALSE]

NoExit == 2

VARIABLES
    env,            \* the required environment variables that are set
    graph,          \* the graph handed to compile
    app,            \* "none", "compiled" or "ValidationError"
    initialInput,   \* the AgentState handed to runWorkflow
    state,          \* the shared state (the channel values)
    status,         \* "boot", "awaiting_agent", "building", "idle", "running",
                    \* "done" (the run is at the terminal marker),
                    \* "throwing" (runWorkflow has rejected), "returned"
                    \* (runWorkflow has returned), "exited", "failed"
    pending,        \* nodes scheduled for the next step
    inflight,       \* nodes whose task unit has been started and not finished
    step,           \* steps started so far
    started,        \* history: names of the nodes started, in order
    executed,       \* history: names of the nodes finished, in order
    given,          \* history: the state handed to each finished node
    routed,         \* history: the label each finished node's edge resolved to
    replies,        \* history: the messages each health_agent call generated
    snapshots,      \* the values yielded by the stream so far
    error,          \* "none", "config", "agent", "validation", "task", "recursion",
                    \* "routing"
    exitCode        \* NoExit while the process runs, else its exit code

setup == <<env, graph, app>>

vars == <<env, graph, app, initialInput, state, status, pending, inflight, step, started,
          executed, given, routed, replies, snapshots, error, exitCode>>

\* everything but the startup: nothing has run yet
Fresh ==
    /\ initialInput \in InitialInputs
    /\ state = [messages |-> ChannelDefault]
    /\ pending = {}
    /\ inflight = {}
    /\ step = 0
    /\ started = << >>
    /\ executed = << >>
    /\ given = << >>
    /\ routed = << >>
    /\ replies = << >>
    /\ snapshots = << >>
    /\ error = "none"
    /\ exitCode = NoExit

\* a compiled workflow about to be run: main after buildWorkflow
Init ==
    /\ env = RequiredEnv
    /\ graph = BuiltGraph
    /\ app = compile(BuiltGraph)
    /\ status = "idle"
    /\ Fresh

\* runWorkflow: app.stream(initialInput, {streamMode: 'values'})
StartRun ==
    /\ status = "idle"
    /\ app = "compiled"
    /\ LET s == [messages |-> reducer(state.messages, initialInput.messages)]
       IN /\ state' = s
          /\ snapshots' = Append(snapshots, s)
    /\ pending' = EntryNodes
    /\ status' = "running"
    /\ UNCHANGED <<initialInput, inflight, step, started, executed, given,
                   routed, replies, error, exitCode>>
    /\ UNCHANGED setup

\* the executor starts the scheduled node(s)
StartStep ==
    /\ status = "running"
    /\ inflight = {}
    /\ pending # {}
    /\ step < RecursionLimit
    /\ inflight' = pending
    /\ pending' = {}
    /\ step' = step + 1
    /\ started' = started \o
          (IF "supervisor" \in pending THEN <<"supervisor">> ELSE << >>) \o
          (IF "health_agent" \in pending THEN <<"health_agent">> ELSE << >>)
    /\ UNCHANGED <<initialInput, state, status, executed, given, routed,
                   replies, snapshots, error, exitCode>>
    /\ UNCHANGED setup

\* a node's task unit has returned `update`: merge, yield, follow the edge;
\* with nothing left to run the run is at the terminal marker and the stream
\* closes; a router label that the outcome mapping lacks is an error of the
\* run, thrown into the stream
Finish(node, update) ==
    LET s == ApplyUpdate(state, update)
        l == EdgeLabel(node, s)
        p == pending \cup Successors(node, l)
        f == inflight \ {node}
    IN IF node = "supervisor" /\ l \notin DOMAIN OutcomeMap
       THEN /\ error' = "routing"
            /\ inflight' = {}
            /\ UNCHANGED <<initialInput, state, status, pending, step,
                           started, executed, given, routed, snapshots,
                           exitCode>>
       ELSE /\ state' = s
            /\ snapshots' = EmitValues(snapshots, update, s)
            /\ pending' = p
            /\ inflight' = f
            /\ executed' = Append(executed, node)
            /\ given' = Append(given, state)
            /\ routed' = Append(routed, l)
            /\ status' = IF p = {} /\ f = {} THEN "done" ELSE status
            /\ UNCHANGED <<initialInput, step, started, error, exitCode>>

SupervisorDone ==
    /\ status = "running"
    /\ "supervisor" \in inflight
    /\ Finish("supervisor", supervisorNode(state))
    /\ UNCHANGED replies
    /\ UNCHANGED setup

HealthAgentDone ==
    /\ status = "running"
    /\ "health_agent" \in inflight
    /\ \E generated \in Replies :
          /\ Finish("health_agent",
                    callHealthAgentNode(state, AgentInvoke(state, generated)))
          /\ replies' = Append(replies, generated)
    /\ UNCHANGED setup

\* healthAgentRunnable.invoke rejects and callHealthAgentNode, which has no
\* catch, rejects with it: the task is over and the error is on its way
\* through the executor and the stream
HealthAgentFail ==
    /\ status = "running"
    /\ error = "none"
    /\ "health_agent" \in inflight
    /\ error' = "task"
    /\ inflight' = {}
    /\ UNCHANGED <<initialInput, state, status, pending, step, started,
                   executed, given, routed, replies, snapshots, exitCode>>
    /\ UNCHANGED setup

\* a node is still scheduled when the step limit is used up: the executor
\* throws into the stream
RecursionError ==
    /\ status = "running"
    /\ error = "none"
    /\ inflight = {}
    /\ pending # {}
    /\ step >= RecursionLimit
    /\ error' = "recursion"
    /\ UNCHANGED <<initialInput, state, status, pending, inflight, step,
                   started, executed, given, routed, replies, snapshots,
                   exitCode>>
    /\ UNCHANGED setup

\* runWorkflow's `for await` pulls and the stream throws the run's error:
\* runWorkflow, which has no catch, rejects
RunWorkflowThrow ==
    /\ status = "running"
    /\ error # "none"
    /\ status' = "throwing"
    /\ UNCHANGED <<initialInput, state, pending, inflight, step, started,
                   executed, given, routed, replies, snapshots, error,
                   exitCode>>
    /\ UNCHANGED setup

\* main resumes from `await runWorkflow` in its catch: it logs the error and
\* calls process.exit(1)
MainCatch ==
    /\ status = "throwing"
    /\ status' = mainCatch.status
    /\ exitCode' = mainCatch.exitCode
    /\ pending' = IF mainCatch.retry THEN {"health_agent"} ELSE pending
    /\ UNCHANGED <<initialInput, state, inflight, step, started, executed,
                   given, routed, replies, snapshots, error>>
    /\ UNCHANGED setup

\* runWorkflow's `for await` pulls and finds the stream closed: the loop
\* ends and runWorkflow returns
RunWorkflowReturn ==
    /\ status = "done"
    /\ status' = "returned"
    /\ UNCHANGED <<initialInput, state, pending, inflight, step, started,
                   executed, given, routed, replies, snapshots, error,
                   exitCode>>
    /\ UNCHANGED setup

\* main resumes from `await runWorkflow` and returns; with nothing left for
\* the event loop the process ends with code 0
MainReturn ==
    /\ status = "returned"
    /\ status' = "exited"
    /\ exitCode' = 0
    /\ UNCHANGED <<initialInput, state, pending, inflight, step, started,
                   executed, given, routed, replies, snapshots, error>>
    /\ UNCHANGED setup

\* main, startup: initializeEnvironmentAndLLM finds a required variable
\* missing, logs it and exits
ConfigError ==
    /\ status = "boot"
    /\ ~(RequiredEnv \subseteq env)
    /\ status' = "failed"
    /\ error' = "config"
    /\ exitCode' = 1
    /\ UNCHANGED <<env, graph, app, initialInput, state, pending, inflight,
                   step, started, executed, given, routed, replies,
                   snapshots>>

\* compile(nodes, edges, entry) on a graph of Graphs
CompileGraph ==
    /\ status = "building"
    /\ app' = compile(graph)
    /\ IF compile(graph) = "compiled"
       THEN status' = "idle" /\ UNCHANGED <<error, exitCode>>
       ELSE /\ status' = mainCatch.status
            /\ exitCode' = mainCatch.exitCode
            /\ error' = "validation"
    /\ UNCHANGED <<env, graph, initialInput, state, pending, inflight, step,
                   started, executed, given, routed, replies, snapshots>>

\* main up to its await: the environment is complete, the model client is
\* constructed and createHealthAgentRunnable has called createReactAgent;
\* main gives control back until the agent runnable is there
CreateAgent ==
    /\ status = "boot"
    /\ RequiredEnv \subseteq env
    /\ status' = "awaiting_agent"
    /\ UNCHANGED <<env, graph, app, initialInput, state, pending, inflight,
                   step, started, executed, given, routed, replies,
                   snapshots, error, exitCode>>

\* createHealthAgentRunnable rejects: main's catch logs it and exits; no
\* graph has been built
CreateAgentFail ==
    /\ status = "awaiting_agent"
    /\ status' = mainCatch.status
    /\ exitCode' = mainCatch.exitCode
    /\ error' = "agent"
    /\ UNCHANGED <<env, graph, app, initialInput, state, pending, inflight,
                   step, started, executed, given, routed, replies,
                   snapshots>>

\* main resumes with the agent runnable: buildWorkflow builds and compiles
\* the graph (the environment is not read again)
BuildWorkflow ==
    /\ status = "awaiting_agent"
    /\ graph' = BuiltGraph
    /\ app' = compile(BuiltGraph)
    /\ IF compile(BuiltGraph) = "compiled"
       THEN status' = "idle" /\ UNCHANGED <<error, exitCode>>
       ELSE /\ status' = mainCatch.status
            /\ exitCode' = mainCatch.exitCode
            /\ error' = "validation"
    /\ UNCHANGED <<env, initialInput, state, pending, inflight, step,
                   started, executed, given, routed, replies, snapshots>>

Next ==
    \/ StartRun
    \/ StartStep
    \/ SupervisorDone
    \/ HealthAgentDone
    \/ HealthAgentFail
    \/ RecursionError
    \/ RunWorkflowThrow
    \/ MainCatch
    \/ RunWorkflowReturn
    \/ MainReturn

Spec == Init /\ [][Next]_vars

\* every started call returns or rejects, and the event loop runs what is ready
FairSpec ==
    /\ Spec
    /\ WF_vars(StartRun)
    /\ WF_vars(StartStep)
    /\ WF_vars(SupervisorDone)
    /\ WF_vars(HealthAgentDone \/ HealthAgentFail)
    /\ WF_vars(RecursionError)
    /\ WF_vars(RunWorkflowThrow)
    /\ WF_vars(MainCatch)
    /\ WF_vars(RunWorkflowReturn)
    /\ WF_vars(MainReturn)

\* the process from its start: main()
InitMain ==
    /\ env \in Environments
    /\ graph = NoGraph
    /\ app = "none"
    /\ status = "boot"
    /\ Fresh

NextMain == ConfigError \/ CreateAgent \/ CreateAgentFail \/ BuildWorkflow \/ Next

MainSpec == InitMain /\ [][NextMain]_vars

\* compile's contract, on every graph of Graphs
InitCompile ==
    /\ env = RequiredEnv
    /\ graph \in Graphs
    /\ app = "none"
    /\ status = "building"
    /\ Fresh

CompileSpec == InitCompile /\ [][CompileGraph]_vars

TypeOK ==
    /\ env \in Environments
    /\ app \in {"none", "compiled", "ValidationError"}
    /\ status \in {"boot", "awaiting_agent", "building", "idle", "running",
                  "done", "throwing", "returned", "exited", "failed"}
    /\ pending \subseteq Nodes
    /\ inflight \subseteq Nodes
    /\ step \in 0..RecursionLimit
    /\ error \in {"none", "config", "agent", "validation", "task", "recursion",
                 "routing"}
    /\ exitCode \in {0, 1, NoExit}
\* ------------------------------------------------- reading the histories
Count(seq, x) == Cardinality({i \in 1..Len(seq) : seq[i] = x})

HealthRuns == Count(executed, "health_agent")

\* the shared state right after the i-th finished node
StateAfter(i) == IF i < Len(given) THEN given[i + 1] ELSE state

\* the index in `executed` of the k-th health_agent execution
HealthIndex(k) ==
    CHOOSE i \in 1..Len(executed) :
        /\ executed[i] = "health_agent"
        /\ Cardinality({j \in 1..i : executed[j] = "health_agent"}) = k

InitEndsHuman == IsHumanMessage(LastMessage(initialInput.messages))

\* a reply that ends with a message that is not user-authored
GoodReply(r) == Len(r) > 0 /\ ~IsHumanMessage(LastMessage(r))

\* the run has reached the terminal marker (and the process may have gone
\* on to return from runWorkflow and to end)
RunEnded == status \in {"done", "returned", "exited"}

RepliesOK == \A i \in 1..Len(replies) : GoodReply(replies[i])

\* ------------------------------------------------------------------- C1
\* C1: a run whose initial sequence ends with a user-authored message and
\* in which every health_agent reply ends with a message that is not
\* user-authored reaches the terminal marker, and health_agent has then
\* been executed exactly once.
C1_Termination ==
    /\ InitEndsHuman => <>(status = "done" \/ ~RepliesOK \/ error = "task")
    /\ [](RunEnded /\ InitEndsHuman /\ RepliesOK => HealthRuns = 1)

C1_Witness ==
    /\ status = "done"
    /\ InitEndsHuman
    /\ RepliesOK
    /\ HealthRuns = 1

\* ------------------------------------------------------------------- C2
\* C2: after health_agent runs on a state with messages S and the agent
\* generates the reply messages R, the channel is S followed by R, every
\* message of S appearing once.
C2_MergeIsStateThenReply ==
    (executed # << >> /\ executed[Len(executed)] = "health_agent")
        => state.messages =
              given[Len(given)].messages \o replies[Len(replies)]

\* ------------------------------------------------------------------- C3
OneShotScenario ==
    /\ Len(initialInput.messages) = 1
    /\ initialInput.messages[1].type = "human"
    /\ \A i \in 1..Len(replies) :
          Len(replies[i]) = 1 /\ replies[i][1].type = "ai"

\* C3: started from one user-authored message, with health_agent replying
\* one agent-authored message, the stream closes after exactly 2 snapshots.
C3_TwoSnapshots ==
    (OneShotScenario /\ error = "none") =>
        /\ Len(snapshots) <= 2
        /\ RunEnded => Len(snapshots) = 2

C3_Witness ==
    /\ OneShotScenario
    /\ initialInput.messages = <<HumanMessage("hi")>>
    /\ replies = <<(<<AIMessage("hello")>>)>>
    /\ status = "done"
    /\ Len(snapshots) = 2

\* ------------------------------------------------------------------- C4
\* C4 as stated: a run that terminates after N node executions has yielded
\* exactly N snapshots, the k-th being the state after the k-th node.
C4_OneSnapshotPerNode ==
    RunEnded =>
        /\ Len(snapshots) = Len(executed)
        /\ \A k \in 1..Len(executed) :
              k <= Len(snapshots) => snapshots[k] = StateAfter(k)

\* C4, amended: a run that terminates after N node executions, H of them
\* of health_agent (N = 2H + 1), has yielded exactly 1 + H snapshots: the
\* initial state, then the state after each health_agent execution, in
\* execution order; a supervisor execution yields no snapshot.
C4_SnapshotPerChannelWrite ==
    RunEnded =>
        /\ Len(executed) = 2 * HealthRuns + 1
        /\ Len(snapshots) = 1 + HealthRuns
        /\ snapshots[1] = [messages |-> initialInput.messages]
        /\ \A k \in 1..HealthRuns :
              snapshots[k + 1] = StateAfter(HealthIndex(k))

C4_Witness ==
    /\ status = "done"
    /\ HealthRuns = 1
    /\ Len(snapshots) = 2
    /\ Len(executed) = 3

\* ------------------------------------------------------------------- C5
\* C5 as stated: every executed node, a supervisor step included, produces
\* a snapshot (the state captured after its update), and each one after
\* the first has a strictly longer message sequence than the one before.
C5_EveryStepGrows ==
    \A k \in 1..Len(executed) :
        k > 1 => Len(StateAfter(k).messages) > Len(StateAfter(k - 1).messages)

\* C5, amended: every snapshot after the first has a strictly longer
\* message sequence than the snapshot before it, and every one of them is
\* produced by a health_agent step: the k-th health_agent step appends to
\* the previous snapshot's sequence the agent's whole returned list (that
\* sequence again, then the messages generated).  A supervisor step merges
\* nothing, leaves the sequence as it was and produces no snapshot.
C5_SnapshotsGrow ==
    /\ \A k \in 1..Len(snapshots) :
          k > 1 => Len(snapshots[k].messages) > Len(snapshots[k - 1].messages)
    /\ status # "idle" => Len(snapshots) = 1 + HealthRuns
    /\ \A k \in 1..HealthRuns :
          /\ snapshots[k + 1] = StateAfter(HealthIndex(k))
          /\ snapshots[k + 1].messages =
                snapshots[k].messages \o snapshots[k].messages \o replies[k]
    /\ \A i \in 1..Len(executed) :
          executed[i] = "supervisor" => StateAfter(i) = given[i]

\* a supervisor step has run between two health_agent steps and produced
\* no snapshot; one of the replies was empty
C5_Witness ==
    /\ Len(executed) >= 4
    /\ executed[3] = "supervisor"
    /\ StateAfter(3) = StateAfter(2)
    /\ Len(snapshots) = 3
    /\ HealthRuns = 2
    /\ \E i \in 1..Len(replies) : replies[i] = << >>

\* ------------------------------------------------------------------- C6
\* C6 as stated: whatever the initial state and the replies, provided each
\* task unit invocation returns, the run eventually reaches the terminal
\* marker and the stream closes.
C6_AlwaysReachesTerminal == <>(status = "done" \/ error = "task")

\* C6, amended: provided each task unit invocation returns, the run reaches
\* the terminal marker at the first supervisor evaluation whose last
\* message is not user-authored (or is absent); while every health_agent
\* reply the supervisor has evaluated is empty or ends with a user-authored
\* message the supervisor schedules health_agent again and the terminal
\* marker is never reached: such a run ends only when the executor's step
\* limit stops it with an error.
C6_TerminalOrStepLimit ==
    /\ <>(\/ status = "done"
          \/ error = "task"
          \/ /\ error = "recursion"
             /\ replies # << >>
             /\ \A i \in 1..Len(replies) :
                   (i < Len(replies)
                      \/ executed[Len(executed)] = "supervisor")
                     => ~GoodReply(replies[i]))
    /\ [](RunEnded => ~IsHumanMessage(LastMessage(state.messages)))
    /\ [](\A i \in 1..Len(executed) :
            (executed[i] = "supervisor"
               /\ IsHumanMessage(LastMessage(StateAfter(i).messages)))
              => routed[i] = "health_agent")
    /\ [](\A i \in 1..Len(executed) :
            (executed[i] = "supervisor"
               /\ ~IsHumanMessage(LastMessage(StateAfter(i).messages)))
              => (i = Len(executed) /\ RunEnded))

C6_Witness ==
    /\ error = "recursion"
    /\ status = "failed"
    /\ \E i \in 1..Len(replies) : replies[i] = << >>
    /\ \E i \in 1..Len(replies) :
          Len(replies[i]) > 0 /\ IsHumanMessage(LastMessage(replies[i]))

\* ------------------------------------------------------------------- C7
LastTag(msgs) == LastMessage(msgs).type

\* C7: the supervisor's edge resolves to 'health_agent' exactly when the
\* last message of the channel is user-authored and to the terminal marker
\* otherwise, and states whose last messages carry the same authorship tag
\* are routed alike whatever their length and contents.
C7_RouteOnLastTag ==
    \A i \in 1..Len(executed) :
        executed[i] = "supervisor" =>
            LET s == StateAfter(i).messages
            IN /\ routed[i] = "health_agent" <=>
                     (Len(s) > 0 /\ s[Len(s)].type = "human")
               /\ routed[i] # "health_agent" => routed[i] = END
               /\ \A j \in 1..Len(executed) :
                     (executed[j] = "supervisor"
                        /\ LastTag(StateAfter(j).messages) = LastTag(s))
                       => routed[j] = routed[i]
               /\ \A t \in InitialInputs :
                     LastTag(t.messages) = LastTag(s)
                       => routeLogic(t) = routed[i]

C7_Witness ==
    \E i, j \in 1..Len(executed) :
        /\ executed[i] = "supervisor"
        /\ executed[j] = "supervisor"
        /\ routed[i] = "health_agent"
        /\ routed[j] = "health_agent"
        /\ Len(StateAfter(i).messages) # Len(StateAfter(j).messages)
        /\ LastMessage(StateAfter(i).messages).content
              # LastMessage(StateAfter(j).messages).content
        /\ StateAfter(j).messages[1].type = "ai"

\* ------------------------------------------------------------------- C9
\* C9: when the agent call inside health_agent rejects, the run ends in a
\* failure surfaced to the consumer: the error reaches main's catch and the
\* process exits with code 1 (the run does not hang); from the rejection on
\* no snapshot is yielded, no node is started or finished, the failed task
\* is not started again, nothing is left in flight or scheduled, and once
\* the process has exited nothing changes.
C9_FailureHalts ==
    /\ [](error = "task" =>
            /\ status \in {"running", "throwing", "failed"}
            /\ exitCode = (IF status = "failed" THEN 1 ELSE NoExit)
            /\ inflight = {}
            /\ pending = {}
            /\ started[Len(started)] = "health_agent"
            /\ Len(executed) = Len(started) - 1)
    /\ [][error = "task" =>
            UNCHANGED <<snapshots, started, executed, state, inflight,
                        pending, step, replies, error>>]_vars
    /\ [][(error = "task" /\ status = "failed") => UNCHANGED vars]_vars
    /\ (error = "task") ~> (status = "failed" /\ exitCode = 1)

\* the second agent call has rejected, after one snapshot of a reply, and
\* the process has exited
C9_Witness ==
    /\ error = "task"
    /\ status = "failed"
    /\ exitCode = 1
    /\ HealthRuns = 1
    /\ Len(snapshots) = 2

\* ------------------------------------------------------------------ C10
\* C10: at most one node task unit is in flight at any time, and a node is
\* started only once every node started before it has finished, its update
\* merged and its outgoing edge resolved; the node started is the one that
\* edge resolved to.
C10_OneInFlight ==
    /\ Cardinality(inflight) <= 1
    /\ Len(routed) = Len(executed)
    /\ Len(given) = Len(executed)
    /\ Len(started) <= Len(executed) + 1
    /\ \A i \in 1..Len(executed) : started[i] = executed[i]
    /\ \A i \in 1..Len(started) : i > 1 => started[i] = routed[i - 1]
    /\ inflight # {} =>
          /\ Len(started) = Len(executed) + 1
          /\ inflight = {started[Len(started)]}
          /\ pending = {}

C10_Witness ==
    /\ inflight = {"health_agent"}
    /\ executed = <<"supervisor", "health_agent", "supervisor">>
    /\ Len(started) = 4

\* ------------------------------------------------------------------ C11
\* C11: the first node started and executed in every run is supervisor, and
\* health_agent is never started before a supervisor execution has finished
\* and its edge has resolved to health_agent.
C11_SupervisorFirst ==
    /\ started # << >> => started[1] = "supervisor"
    /\ executed # << >> => executed[1] = "supervisor"
    /\ \A i \in 1..Len(started) :
          started[i] = "health_agent" =>
              /\ i > 1
              /\ Len(executed) >= i - 1
              /\ executed[i - 1] = "supervisor"
              /\ routed[i - 1] = "health_agent"

C11_Witness ==
    /\ started = <<"supervisor", "health_agent">>
    /\ executed = <<"supervisor">>
    /\ inflight = {"health_agent"}

\* ------------------------------------------------------------------ C15
\* A is the channel before a merge, B the delta and M the channel after:
\* M is A followed by the elements of B in their order, nothing dropped
ConcatOf(A, B, M) ==
    /\ Len(M) = Len(A) + Len(B)
    /\ \A j \in 1..Len(A) : M[j] = A[j]
    /\ \A j \in 1..Len(B) : M[Len(A) + j] = B[j]

\* the delta the k-th health_agent execution returned
HealthDelta(k) ==
    callHealthAgentNode(given[HealthIndex(k)],
                        AgentInvoke(given[HealthIndex(k)], replies[k])).messages

\* C15: every merge into the messages channel is plain concatenation: the
\* merged value is the old value followed by the delta's elements in their
\* order, of length len(A) + len(B), without deduplication or truncation.
C15_ReducerConcatenates ==
    /\ status # "idle" =>
          ConcatOf(ChannelDefault, initialInput.messages,
                   snapshots[1].messages)
    /\ \A k \in 1..HealthRuns :
          ConcatOf(given[HealthIndex(k)].messages, HealthDelta(k),
                   StateAfter(HealthIndex(k)).messages)

\* a merge whose delta repeats messages already in the channel
C15_Witness ==
    /\ HealthRuns = 2
    /\ Len(given[HealthIndex(2)].messages) = 5
    /\ Len(state.messages) = 11
    /\ \E j \in 1..Len(HealthDelta(2)) :
          HealthDelta(2)[j] = given[HealthIndex(2)].messages[1]

\* ------------------------------------------------------------------ C16
\* C16: a supervisor execution leaves the shared state as it was given it,
\* and the snapshot the consumer holds after a supervisor execution carries
\* exactly the message sequence the supervisor was given.
C16_SupervisorChangesNothing ==
    /\ \A i \in 1..Len(executed) :
          executed[i] = "supervisor" => StateAfter(i) = given[i]
    /\ (executed # << >> /\ executed[Len(executed)] = "supervisor") =>
          /\ snapshots[Len(snapshots)] = given[Len(given)]
          /\ snapshots[Len(snapshots)].messages = state.messages

C16_Witness ==
    /\ executed = <<"supervisor", "health_agent", "supervisor">>
    /\ Len(state.messages) = 3
    /\ given[3] = state

\* ------------------------------------------------------------------ C17
\* C17: no run ends in a routing error: in every reachable state, the empty
\* message sequence included, the label routeLogic returns is a key of the
\* supervisor's outcome mapping ('health_agent' or the terminal marker), and
\* so was every label a supervisor execution's edge resolved to.
C17_NoRoutingError ==
    /\ error # "routing"
    /\ routeLogic(state) \in DOMAIN OutcomeMap
    /\ DOMAIN OutcomeMap = {"health_agent", END}
    /\ \A i \in 1..Len(executed) :
          executed[i] = "supervisor" => routed[i] \in DOMAIN OutcomeMap

C17_Witness ==
    /\ initialInput.messages = << >>
    /\ state.messages = << >>
    /\ executed = <<"supervisor">>
    /\ routed = <<END>>
    /\ status = "done"

\* ------------------------------------------------------------------ C18
\* C18: node executions alternate supervisor, health_agent, supervisor, ...:
\* health_agent runs only right after a supervisor execution whose state
\* ended with a user-authored message, the node that runs after a
\* health_agent execution is supervisor (its edge resolves to supervisor),
\* and the last node executed in a run that reaches the terminal marker is
\* supervisor.
C18_Alternation ==
    /\ \A i \in 1..Len(started) :
          started[i] = IF i % 2 = 1 THEN "supervisor" ELSE "health_agent"
    /\ \A i \in 1..Len(executed) :
          /\ executed[i] = started[i]
          /\ executed[i] = "health_agent" =>
                /\ i > 1
                /\ executed[i - 1] = "supervisor"
                /\ IsHumanMessage(LastMessage(StateAfter(i - 1).messages))
                /\ given[i] = StateAfter(i - 1)
                /\ routed[i] = "supervisor"
    /\ RunEnded =>
          (executed # << >> /\ executed[Len(executed)] = "supervisor")

C18_Witness ==
    /\ status = "done"
    /\ executed = <<"supervisor", "health_agent", "supervisor">>
    /\ started = executed

\* ------------------------------------------------------------------ C19
\* C19: a run started with an empty message sequence, or one whose last
\* message is not user-authored, reaches the terminal marker after a single
\* supervisor execution, with no health_agent execution and with the
\* message sequence as it was given.
C19_NoUserMessageEndsAtOnce ==
    /\ ~InitEndsHuman => <>(status = "done")
    /\ [](~InitEndsHuman =>
            /\ HealthRuns = 0
            /\ "health_agent" \notin inflight \cup pending
            /\ Len(started) <= 1
            /\ error = "none"
            /\ status # "idle" => state.messages = initialInput.messages
            /\ RunEnded =>
                  /\ executed = <<"supervisor">>
                  /\ snapshots = <<[messages |-> initialInput.messages]>>)

C19_Witness ==
    /\ status = "done"
    /\ Len(initialInput.messages) = 2
    /\ initialInput.messages[1].type = "human"
    /\ initialInput.messages[2].type = "ai"
    /\ executed = <<"supervisor">>
    /\ state.messages = initialInput.messages

\* ------------------------------------------------------------------ C20
IsPrefix(a, b) ==
    /\ Len(a) <= Len(b)
    /\ \A i \in 1..Len(a) : a[i] = b[i]

\* C20: the message channel is append-only: once the run has started the
\* initial sequence is a prefix of the current one, every step leaves the
\* old sequence a prefix of the new one, and each snapshot's sequence is a
\* prefix of every later snapshot's.
C20_AppendOnly ==
    /\ [](status # "idle" =>
            IsPrefix(initialInput.messages, state.messages))
    /\ [](\A i, j \in 1..Len(snapshots) :
            i <= j => IsPrefix(snapshots[i].messages, snapshots[j].messages))
    /\ [][IsPrefix(state.messages, state'.messages)]_vars

C20_Witness ==
    /\ Len(snapshots) = 3
    /\ Len(initialInput.messages) = 2
    /\ Len(snapshots[2].messages) = 5
    /\ Len(snapshots[3].messages) = 11
    /\ state = snapshots[3]

\* ------------------------------------------------------------------ C13
Configured ==
    {"ENDPOINT_ID", "ENDPOINT_API_KEY", "ARK_BASE_URL"} \subseteq env

\* C13: when any of the three required configuration values (endpoint
\* identifier, API credential, base address) is absent at startup, the
\* first thing the process does is exit with code 1: no graph is built or
\* compiled and no node is started, then or later.
C13_MissingConfigExits ==
    /\ [][(status = "boot" /\ ~Configured) =>
            (status' = "failed" /\ exitCode' = 1 /\ error' = "config")]_vars
    /\ [](~Configured =>
            /\ graph = NoGraph
            /\ app = "none"
            /\ status \in {"boot", "failed"}
            /\ started = << >>
            /\ executed = << >>
            /\ snapshots = << >>
            /\ exitCode \in {NoExit, 1})

C13_Witness ==
    /\ env = {"ENDPOINT_ID", "ENDPOINT_API_KEY"}
    /\ status = "failed"
    /\ error = "config"
    /\ exitCode = 1
    /\ app = "none"

\* ------------------------------------------------------------------ C14
\* the edge endpoints of g that no addNode registered
Unregistered(g) == (EdgeSources(g) \cup EdgeTargets(g)) \ (g.nodes \cup {END})

\* C14: compiling a graph with an edge endpoint that is not a registered
\* node name fails with a validation error and leaves no runnable compiled
\* graph; the graph buildWorkflow builds has every edge endpoint registered,
\* exactly one outgoing edge set per node and a registered entry node, and
\* compiles.
C14_CompileValidates ==
    /\ (status # "building" /\ Unregistered(graph) # {}) =>
          /\ app = "ValidationError"
          /\ status = "failed"
          /\ error = "validation"
          /\ exitCode = 1
    /\ app = "compiled" => Unregistered(graph) = {}
    /\ Unregistered(BuiltGraph) = {}
    /\ \A n \in BuiltGraph.nodes : EdgeSetCount(BuiltGraph, n) = 1
    /\ BuiltGraph.entry # {} /\ BuiltGraph.entry \subseteq BuiltGraph.nodes
    /\ (graph = BuiltGraph /\ status # "building") =>
          (app = "compiled" /\ status = "idle" /\ error = "none")

C14_Witness ==
    /\ graph.nodes = Nodes
    /\ graph.entry = {"supervisor"}
    /\ graph.plain = {<<"health_agent", "ghost">>}
    /\ graph.cond = {<<"supervisor", {"health_agent", END}>>}
    /\ app = "ValidationError"
    /\ status = "failed"
====
